---- MODULE Spec2Model ----
(***************************************************************************)
(* ai-sdk-dynamic-tools: dynamicTools (src/src/dynamic-tools.ts) and       *)
(* composeStepHandlers (src/unnamed/part_001).                             *)
(*                                                                         *)
(* JavaScript values are modelled by what the code does with them:         *)
(*   - a string is the sequence of its pieces (<<>> is the empty string,   *)
(*     \o is string concatenation);                                        *)
(*   - an object is the ordered sequence of its own enumerable properties  *)
(*     [key, val], living in a heap under an object identity;              *)
(*   - a value that may be a string, a function, null or undefined is a    *)
(*     record [type, text, fn].                                            *)
(***************************************************************************)
EXTENDS Integers, Sequences, FiniteSets, TLC

\* ------------------------------------------------------------------ bounds
\* Longest message list handed to prepareStep.
MaxMessages == 2
\* Longest handler list handed to composeStepHandlers.
MaxHandlers == 3

\* ------------------------------------------------------------ JS strings
EmptyString == <<>>

RECURSIVE Join(_, _)
\* Array.prototype.join: the elements, separated by sep.
Join(names, sep) ==
    IF Len(names) = 0 THEN EmptyString
    ELSE IF Len(names) = 1 THEN <<names[1]>>
    ELSE <<names[1], sep>> \o Join(Tail(names), sep)

\* ------------------------------------------------------------- JS values
Undefined == [type |-> "undefined", text |-> EmptyString, fn |-> "none"]
Null == [type |-> "null", text |-> EmptyString, fn |-> "none"]
Str(t) == [type |-> "string", text |-> t, fn |-> "none"]
Fn(f) == [type |-> "function", text |-> EmptyString, fn |-> f]

\* JavaScript truthiness of undefined, null, a string or a function.
Truthy(v) ==
    \/ v.type = "function"
    \/ v.type = "string" /\ v.text # EmptyString

\* ------------------------------------------------------------ JS objects
ToolNames == {"a", "b"}
Entry(k, v) == [key |-> k, val |-> v]

\* Object.keys: the own keys in property order.
ObjectKeys(obj) == [j \in 1..Len(obj) |-> obj[j].key]
KeySet(obj) == {obj[j].key : j \in 1..Len(obj)}
HasKey(obj, k) == k \in KeySet(obj)

\* delete obj[key]
DeleteKey(obj, k) == SelectSeq(obj, LAMBDA e : e.key # k)

\* obj[key] = val: an existing property keeps its place, a new one is added
\* last.
SetKey(obj, k, v) ==
    IF HasKey(obj, k)
    THEN [j \in 1..Len(obj) |-> IF obj[j].key = k THEN Entry(k, v) ELSE obj[j]]
    ELSE Append(obj, Entry(k, v))

RECURSIVE ObjectAssign(_, _)
\* Object.assign(target, source): every own property of source, in order.
ObjectAssign(target, source) ==
    IF Len(source) = 0 THEN target
    ELSE ObjectAssign(SetKey(target, Head(source).key, Head(source).val),
                      Tail(source))

RECURSIVE DeleteKeys(_, _)
\* for (const key of keys) delete obj[key]
DeleteKeys(obj, keys) ==
    IF Len(keys) = 0 THEN obj
    ELSE DeleteKeys(DeleteKey(obj, Head(keys)), Tail(keys))

\* { ...obj }: a new object with obj's own properties.
Spread(obj) == ObjectAssign(<<>>, obj)

\* Every mapping of tools from ToolNames, in every property order, all with
\* the tool definition def.
ToolSetsOf(def) ==
    {<<>>}
    \cup {<<Entry(k, def)>> : k \in ToolNames}
    \cup {<<Entry(k1, def), Entry(k2, def)>> :
            <<k1, k2>> \in {p \in ToolNames \X ToolNames : p[1] # p[2]}}

\* The initial mappings config.tools, and the mappings refreshTools resolves
\* with: tools of the same name have different definitions in the two.
InitialToolSets == ToolSetsOf("d1")
FreshToolSets == ToolSetsOf("d2")

SeqsUpTo(S, n) == UNION {[1..k -> S] : k \in 0..n}

\* ------------------------------------------------- DynamicToolsConfig
\* refreshMessage functions the caller may supply.
TemplateFns == {"announce", "join"}

\* config.refreshMessage(toolNames) for a function refreshMessage.
ApplyTemplate(f, toolNames) ==
    IF f = "announce"
    THEN <<"Tools refreshed. Now available: ">> \o Join(toolNames, ", ")
    ELSE Join(toolNames, ", ")

\* refreshMessage?: string | ((toolNames: string[]) => string)
RefreshMessages ==
    {Undefined, Str(EmptyString), Str(<<"Updated!">>)}
    \cup {Fn(f) : f \in TemplateFns}

\* The caller's initial tools object.
OriginalId == "original"
\* Mutant: the registry is one module-level object, shared by every setup.
NewObjectIdShared(i) == "tools1"

\* The object { ...config.tools } creates for setup i.
NewObjectId(i) == IF i = 1 THEN "tools1" ELSE "tools2"

\* A DynamicToolsConfig: tools is a reference to the caller's object,
\* onRefresh says whether the optional observer is given; refreshTools and
\* shouldRefresh are caller functions whose outcomes are chosen at each call.
Configs ==
    [tools : {OriginalId}, onRefresh : BOOLEAN, refreshMessage : RefreshMessages]

\* Outcomes of config.shouldRefresh(step).
ShouldRefreshOutcomes == {"true", "false", "throw"}

Instances == {1, 2}

\* Messages of the step-preparation context.
Messages ==
    {[role |-> "user", content |-> <<"hello">>],
     [role |-> "assistant", content |-> <<"ok">>]}
MessageLists == SeqsUpTo(Messages, MaxMessages)

\* What prepareStep returns: undefined, or { messages }.
NoOverride == [type |-> "undefined", messages |-> <<>>]
Override(ms) == [type |-> "object", messages |-> ms]

VARIABLES
    heap,                   \* object identity -> the object's properties
    config,                 \* setup -> the config it was called with
    tools,                  \* setup -> the object its closure's `tools` names
    pendingRefreshMessage,  \* setup -> its closure's pendingRefreshMessage
    result,                 \* setup -> what dynamicTools returned
    awaiting,               \* setup -> onStepFinish calls suspended at
                            \*   `await config.refreshTools()`
    lastOp,                 \* the latest operation and what its callbacks saw
    latestRefresh,          \* setup -> the latest onStepFinish call that
                            \*   completed a refresh: its toolNames, and the
                            \*   prepareStep calls since (-1: no refresh yet;
                            \*   capped at 2), and the refreshes completed
                            \*   since the latest prepareStep call (capped
                            \*   at 2)
    composed                \* one composeStepHandlers handler and its run

dtVars == <<heap, config, tools, pendingRefreshMessage, result, awaiting,
            lastOp, latestRefresh>>
vars == <<heap, config, tools, pendingRefreshMessage, result, awaiting,
          lastOp, latestRefresh, composed>>

\* ------------------------------------------------------------ dynamicTools
\* Mutant: `const tools = config.tools`, the registry is the caller's object.
ToolsObjectAliased(configTools, newId) == configTools

\* const tools = { ...config.tools }: the closure names a new object.
ToolsObject(configTools, newId) == newId

\* prepareStep is defined when config.refreshMessage is truthy, and the
\* result holds the key only then.
HasPrepareStep(cfg) == Truthy(cfg.refreshMessage)

\* The record of an operation: which one, on which setup, what the caller's
\* callbacks were called with, and what came back.
Op(i, op) ==
    [inst |-> i, op |-> op,
     shouldRefresh |-> "none",     \* what config.shouldRefresh(step) did
     refreshTools |-> "none",      \* "pending", "resolved" or "rejected"
     refreshToolsCalls |-> 0,      \* calls of config.refreshTools
     freshTools |-> <<>>,          \* the mapping refreshTools resolved with
     onRefreshArgs |-> <<>>,       \* one argument per call of config.onRefresh
     status |-> "returned",        \* of the call: "returned", "pending",
                                   \*   "resolved", "rejected"
     error |-> "none",             \* which callback's failure it rejects with
     events |-> <<>>,              \* what the call did, in execution order
     messages |-> <<>>,            \* prepareStep: the caller's messages before
     messagesAfter |-> <<>>,       \*   and after the call
     returned |-> NoOverride]      \* prepareStep: the return value

\* The state dynamicTools(cfg) leaves for setup i, given the heap h.
SetupHeap(h, cfg, i) ==
    LET id == ToolsObject(cfg.tools, NewObjectId(i))
    IN  [o \in DOMAIN h \cup {id} |->
            IF o = id THEN Spread(h[cfg.tools]) ELSE h[o]]

SetupResult(cfg, i) ==
    [tools |-> ToolsObject(cfg.tools, NewObjectId(i)),
     onStepFinish |-> TRUE,
     prepareStep |-> HasPrepareStep(cfg)]

\* The registry the generation loop holds: the object result.tools names.
Registry(i) == heap[result[i].tools]
\* The caller's initial mapping.
Original == heap[OriginalId]

Created == DOMAIN result

\* The object a call of config.refreshTools() resolves with.
FreshId == "freshTools"

\* Mutant: the early return is lost, a false predicate refreshes too.
ShouldSkipNever(r) == FALSE

\* `if (!config.shouldRefresh(step)) return;`
ShouldSkip(r) == r = "false"

\* Mutant: `tools = freshTools`, the closure is rebound to the new mapping.
RefreshTargetRebound(toolsId, freshId) == freshId

\* onStepFinish mutates the object `tools` names; `tools` is never rebound.
RefreshTarget(toolsId, freshId) == toolsId

\* for (const key of Object.keys(tools)) delete tools[key];
ClearObject(h, target) ==
    [h EXCEPT ![target] = DeleteKeys(h[target], ObjectKeys(h[target]))]

\* Mutant: the call suspends between the delete loop and Object.assign, so
\* the step that clears the registry does not refill it.
SwapClearsOnly(h, target, source) == ClearObject(h, target)

\* Mutant: the delete loop is lost, the fresh tools are merged into the old.
SwapMerging(h, target, source) ==
    [h EXCEPT ![target] = ObjectAssign(h[target], h[source])]

\* The in-place swap: clear the target, then Object.assign(tools, freshTools).
SwapInPlace(h, target, source) ==
    LET cleared == ClearObject(h, target)
    IN  [cleared EXCEPT ![target] = ObjectAssign(cleared[target], cleared[source])]

\* Mutant: the names are read before the swap.
ToolNamesBeforeSwap(before, after) == ObjectKeys(before)

\* const toolNames = Object.keys(tools), read after the swap.
ToolNamesOf(before, after) == ObjectKeys(after)

\* The arguments config.onRefresh?.(toolNames) is called with.
OnRefreshCalls(cfg, toolNames) ==
    IF cfg.onRefresh THEN <<toolNames>> ELSE <<>>

\* The message a refresh arms: the function's result, or the fixed string.
NotificationFor(cfg, toolNames) ==
    IF cfg.refreshMessage.type = "function"
    THEN Str(ApplyTemplate(cfg.refreshMessage.fn, toolNames))
    ELSE cfg.refreshMessage

\* Mutant: a notification that is still pending is not overwritten.
PendingKeptIfArmed(cfg, pending, toolNames) ==
    IF Truthy(pending) THEN pending
    ELSE IF Truthy(cfg.refreshMessage) THEN NotificationFor(cfg, toolNames)
    ELSE pending

\* `if (config.refreshMessage) pendingRefreshMessage = ...`
PendingAfterRefresh(cfg, pending, toolNames) ==
    IF Truthy(cfg.refreshMessage) THEN NotificationFor(cfg, toolNames)
    ELSE pending

\* Mutant: the notification is appended bare, as a system message.
NoticeUnwrapped(notification) == [role |-> "system", content |-> notification]

\* { role: "user", content: `[system: ${notification}]` }
Notice(notification) ==
    [role |-> "user", content |-> <<"[system: ">> \o notification \o <<"]">>]

\* prepareStep's return value.
PrepareStepReturn(pending, messages) ==
    IF ~Truthy(pending) THEN NoOverride
    ELSE Override(messages \o <<Notice(pending.text)>>)

\* Mutant: prepareStep leaves the notification in place.
PendingKeptAfterPrepareStep(pending) == pending

\* pendingRefreshMessage after prepareStep.
PendingAfterPrepareStep(pending) ==
    IF ~Truthy(pending) THEN pending ELSE Null

\* The caller's messages array after prepareStep: [...messages, x] builds a
\* new array.
CallerMessagesAfter(pending, messages) == messages

\* What onStepFinish does up to its return or its await, in order, when
\* shouldRefresh(step) has outcome r.
OnStepFinishEvents(r) ==
    IF r = "throw" \/ ShouldSkip(r) THEN <<"shouldRefresh">>
    ELSE <<"shouldRefresh", "refreshTools">>

\* Mutant: the notification is armed before onRefresh is called.
ResumeEventsArmFirst(cfg, onRefreshThrows, refreshMessageThrows) ==
    <<"swap">>
    \o (IF ~Truthy(cfg.refreshMessage) THEN <<>>
        ELSE (IF cfg.refreshMessage.type = "function"
              THEN <<"refreshMessage">> ELSE <<>>)
             \o (IF refreshMessageThrows THEN <<>> ELSE <<"arm">>))
    \o (IF cfg.onRefresh /\ ~refreshMessageThrows THEN <<"onRefresh">> ELSE <<>>)

\* What onStepFinish does after refreshTools resolved, in order: the swap,
\* the onRefresh call, the call of a refreshMessage function and the
\* assignment to pendingRefreshMessage; a throw ends the sequence.
ResumeEvents(cfg, onRefreshThrows, refreshMessageThrows) ==
    <<"swap">>
    \o (IF cfg.onRefresh THEN <<"onRefresh">> ELSE <<>>)
    \o (IF onRefreshThrows \/ ~Truthy(cfg.refreshMessage) THEN <<>>
        ELSE (IF cfg.refreshMessage.type = "function"
              THEN <<"refreshMessage">> ELSE <<>>)
             \o (IF refreshMessageThrows THEN <<>> ELSE <<"arm">>))

\* The call reached the assignment to pendingRefreshMessage.
Arms(events) == \E k \in DOMAIN events : events[k] = "arm"

\* -------------------------------------------------------------- actions
\* onStepFinish(step) on setup i, up to its return or its first await.
OnStepFinishCall(i) ==
    \E r \in ShouldRefreshOutcomes :
        LET op == [Op(i, "onStepFinish") EXCEPT
                      !.shouldRefresh = r,
                      !.events = OnStepFinishEvents(r)]
        IN  IF r = "throw"
            THEN /\ lastOp' = [op EXCEPT !.status = "rejected",
                                         !.error = "shouldRefresh"]
                 /\ UNCHANGED <<heap, config, tools, pendingRefreshMessage,
                                result, awaiting, latestRefresh>>
            ELSE IF ShouldSkip(r)
            THEN /\ lastOp' = [op EXCEPT !.status = "resolved"]
                 /\ UNCHANGED <<heap, config, tools, pendingRefreshMessage,
                                result, awaiting, latestRefresh>>
            ELSE /\ awaiting' = [awaiting EXCEPT ![i] = @ + 1]
                 /\ lastOp' = [op EXCEPT !.status = "pending",
                                         !.refreshTools = "pending",
                                         !.refreshToolsCalls = 1]
                 /\ UNCHANGED <<heap, config, tools, pendingRefreshMessage,
                                result, latestRefresh>>

\* The rest of an onStepFinish call on setup i once refreshTools has
\* resolved with a mapping fresh; onRefresh or the refreshMessage function
\* may throw.
ResumeRefresh(i, fresh, onRefreshThrows, refreshMessageThrows) ==
    LET cfg == config[i]
        h0 == [o \in DOMAIN heap \cup {FreshId} |->
                  IF o = FreshId THEN fresh ELSE heap[o]]
        target == RefreshTarget(tools[i], FreshId)
        h1 == SwapInPlace(h0, target, FreshId)
        toolNames == ToolNamesOf(h0[target], h1[target])
        failed == onRefreshThrows \/ refreshMessageThrows
        events == ResumeEvents(cfg, onRefreshThrows, refreshMessageThrows)
        op == [Op(i, "resume") EXCEPT
                  !.events = events,
                  !.shouldRefresh = "true",
                  !.refreshTools = "resolved",
                  !.refreshToolsCalls = 1,
                  !.freshTools = fresh,
                  !.onRefreshArgs = OnRefreshCalls(cfg, toolNames),
                  !.status = IF failed THEN "rejected" ELSE "resolved",
                  !.error = IF onRefreshThrows THEN "onRefresh"
                            ELSE IF refreshMessageThrows THEN "refreshMessage"
                            ELSE "none"]
    IN  /\ awaiting[i] > 0
        /\ onRefreshThrows => cfg.onRefresh
        /\ refreshMessageThrows =>
              ~onRefreshThrows /\ cfg.refreshMessage.type = "function"
        /\ awaiting' = [awaiting EXCEPT ![i] = @ - 1]
        /\ heap' = h1
        /\ tools' = [tools EXCEPT ![i] = target]
        /\ pendingRefreshMessage' =
              [pendingRefreshMessage EXCEPT ![i] =
                  IF Arms(events) THEN PendingAfterRefresh(cfg, @, toolNames)
                  ELSE @]
        /\ latestRefresh' =
              [latestRefresh EXCEPT ![i] =
                  IF failed THEN @
                  ELSE [toolNames |-> toolNames, prepareSteps |-> 0,
                        refreshes |-> IF @.refreshes >= 2 THEN 2
                                      ELSE @.refreshes + 1]]
        /\ lastOp' = op
        /\ UNCHANGED <<config, result>>

\* Mutant: the delete loop runs before the await, so a rejected refreshTools
\* leaves the registry cleared.
RejectRefreshAfterClear(i) ==
    /\ awaiting[i] > 0
    /\ awaiting' = [awaiting EXCEPT ![i] = @ - 1]
    /\ heap' = ClearObject(heap, tools[i])
    /\ lastOp' = [Op(i, "resume") EXCEPT
                      !.shouldRefresh = "true",
                      !.refreshTools = "rejected",
                      !.refreshToolsCalls = 1,
                      !.status = "rejected",
                      !.error = "refreshTools"]
    /\ UNCHANGED <<config, tools, pendingRefreshMessage, result, latestRefresh>>

\* The rest of an onStepFinish call on setup i once refreshTools has
\* rejected.
RejectRefresh(i) ==
    /\ awaiting[i] > 0
    /\ awaiting' = [awaiting EXCEPT ![i] = @ - 1]
    /\ lastOp' = [Op(i, "resume") EXCEPT
                      !.shouldRefresh = "true",
                      !.refreshTools = "rejected",
                      !.refreshToolsCalls = 1,
                      !.status = "rejected",
                      !.error = "refreshTools"]
    /\ UNCHANGED <<heap, config, tools, pendingRefreshMessage, result,
                   latestRefresh>>

\* prepareStep({ messages }) on setup i, which has the hook.
PrepareStepCall(i, messages) ==
    LET pending == pendingRefreshMessage[i]
    IN  /\ result[i].prepareStep
        /\ pendingRefreshMessage' =
              [pendingRefreshMessage EXCEPT ![i] = PendingAfterPrepareStep(pending)]
        /\ lastOp' = [Op(i, "prepareStep") EXCEPT
                          !.messages = messages,
                          !.messagesAfter = CallerMessagesAfter(pending, messages),
                          !.returned = PrepareStepReturn(pending, messages)]
        /\ latestRefresh' =
              [latestRefresh EXCEPT
                  ![i].prepareSteps =
                      IF @ = -1 THEN -1 ELSE IF @ >= 2 THEN 2 ELSE @ + 1,
                  ![i].refreshes = 0]
        /\ UNCHANGED <<heap, config, tools, result, awaiting>>

\* The generation loop awaits each onStepFinish before the next, so one
\* call at most is suspended.
OnStepFinish ==
    /\ \E i \in Created : awaiting[i] = 0 /\ OnStepFinishCall(i)
    /\ UNCHANGED composed

RefreshToolsResolves ==
    /\ \E i \in Created, fresh \in FreshToolSets :
          ResumeRefresh(i, fresh, FALSE, FALSE)
    /\ UNCHANGED composed

OnRefreshThrows ==
    /\ \E i \in Created, fresh \in FreshToolSets :
          ResumeRefresh(i, fresh, TRUE, FALSE)
    /\ UNCHANGED composed

RefreshMessageThrows ==
    /\ \E i \in Created, fresh \in FreshToolSets :
          ResumeRefresh(i, fresh, FALSE, TRUE)
    /\ UNCHANGED composed

RefreshToolsRejects ==
    /\ \E i \in Created : RejectRefresh(i)
    /\ UNCHANGED composed

PrepareStep ==
    /\ \E i \in Created, messages \in MessageLists : PrepareStepCall(i, messages)
    /\ UNCHANGED composed

\* ----------------------------------------------------- composeStepHandlers
\* A handler returns nothing (sync) or a promise (async).
HandlerKinds == {"sync", "async"}
HandlerLists == SeqsUpTo(HandlerKinds, MaxHandlers)
\* The step values the combined handler is called with.
StepResults == {"step1", "step2"}

\* What happened to a handler: it was called with a step, it completed, or
\* it failed.
Event(ev, k, step) == [ev |-> ev, handler |-> k, step |-> step]

\* composeStepHandlers(...handlers): the combined handler, not yet called.
\*   at      the handler whose result the run awaits
\*   running the handlers called and not yet settled
\*   error   the handler whose failure the run rejected with (0: none)
Compose(handlers) ==
    [handlers |-> handlers, phase |-> "idle", step |-> "none", at |-> 0,
     trace |-> <<>>, running |-> {}, error |-> 0]

\* composeStepHandlers not called.
NotComposed == [Compose(<<>>) EXCEPT !.phase = "none"]

\* Mutant: the failure is caught, and the combined handler resolves.
HandlerFailedSwallowed(c, k) ==
    [c EXCEPT !.phase = "resolved",
              !.trace = Append(@, Event("fail", k, c.step))]

\* A failure of handler k leaves the for loop and rejects the combined
\* handler's promise with the same error.
HandlerFailed(c, k) ==
    [c EXCEPT !.phase = "rejected", !.error = k,
              !.trace = Append(@, Event("fail", k, c.step))]

RECURSIVE CallHandlerNoAwait(_, _, _)
\* Mutant: `handler(step)` without await, every handler from k on is started
\* at once.
CallHandlerNoAwait(c, k, throws) ==
    LET called == [c EXCEPT !.at = k,
                            !.trace = Append(@, Event("call", k, c.step)),
                            !.running = @ \cup {k}]
    IN  IF k >= Len(c.handlers) THEN [called EXCEPT !.phase = "awaiting"]
        ELSE CallHandlerNoAwait(called, k + 1, throws)

\* `await handler(step)` for handler k, up to the suspension: a sync handler
\* runs to its end (or throws) inside the call, an async one is left running.
CallHandler(c, k, throws) ==
    LET called == [c EXCEPT !.at = k,
                            !.trace = Append(@, Event("call", k, c.step)),
                            !.running = @ \cup {k}]
    IN  IF c.handlers[k] = "sync"
        THEN IF throws
             THEN HandlerFailed([called EXCEPT !.running = @ \ {k}], k)
             ELSE [called EXCEPT !.phase = "awaiting",
                                 !.running = @ \ {k},
                                 !.trace = Append(@, Event("done", k, c.step))]
        ELSE [called EXCEPT !.phase = "awaiting"]

\* for (const handler of handlers): the iteration for handler k, or the end
\* of the loop.
Iterate(c, k, throws) ==
    IF k > Len(c.handlers) THEN [c EXCEPT !.phase = "resolved"]
    ELSE CallHandler(c, k, throws)

\* The combined handler is called with a step; throws: the first handler is
\* sync and throws.
ComposedCall(c, step, throws) ==
    Iterate([c EXCEPT !.step = step, !.at = 0, !.trace = <<>>,
                      !.running = {}, !.error = 0], 1, throws)

\* The awaited result of handler c.at settles and the loop goes on; rejects:
\* the handler's promise rejects; throws: the next handler is sync and throws.
ComposedResume(c, rejects, throws) ==
    LET k == c.at
    IN  IF c.handlers[k] = "async"
        THEN IF rejects
             THEN HandlerFailed([c EXCEPT !.running = @ \ {k}], k)
             ELSE Iterate([c EXCEPT !.running = @ \ {k},
                                    !.trace = Append(@, Event("done", k, c.step))],
                          k + 1, throws)
        ELSE Iterate(c, k + 1, throws)

\* The handler at index k is sync (so it may throw inside the call).
IsSync(c, k) == k <= Len(c.handlers) /\ c.handlers[k] = "sync"

InvokeComposed ==
    /\ composed.phase \in {"idle", "resolved", "rejected"}
    /\ \E step \in StepResults, throws \in BOOLEAN :
          /\ throws => IsSync(composed, 1)
          /\ composed' = ComposedCall(composed, step, throws)
    /\ UNCHANGED dtVars

HandlerSettles ==
    /\ composed.phase = "awaiting"
    /\ \E rejects \in BOOLEAN, throws \in BOOLEAN :
          /\ rejects => composed.handlers[composed.at] = "async"
          /\ throws => ~rejects /\ IsSync(composed, composed.at + 1)
          /\ composed' = ComposedResume(composed, rejects, throws)
    /\ UNCHANGED dtVars

\* ------------------------------------------------------ initial states
\* The setups dynamicTools(cfgs[i]) leaves, over one initial mapping init.
InitSetups(cfgs, init) ==
    LET h0 == [o \in {OriginalId} |-> init]
        I == DOMAIN cfgs
    IN  /\ heap = IF 2 \in I THEN SetupHeap(SetupHeap(h0, cfgs[1], 1), cfgs[2], 2)
                  ELSE SetupHeap(h0, cfgs[1], 1)
        /\ config = cfgs
        /\ tools = [i \in I |-> ToolsObject(cfgs[i].tools, NewObjectId(i))]
        /\ pendingRefreshMessage = [i \in I |-> Null]
        /\ result = [i \in I |-> SetupResult(cfgs[i], i)]
        /\ awaiting = [i \in I |-> 0]
        /\ latestRefresh = [i \in I |-> [toolNames |-> <<>>, prepareSteps |-> -1,
                                          refreshes |-> 0]]
        /\ lastOp = Op(1, "dynamicTools")

Init ==
    /\ \E cfg \in Configs, init \in InitialToolSets : InitSetups([i \in {1} |-> cfg], init)
    /\ composed = NotComposed

Next ==
    \/ OnStepFinish
    \/ RefreshToolsResolves
    \/ OnRefreshThrows
    \/ RefreshMessageThrows
    \/ RefreshToolsRejects
    \/ PrepareStep

Spec == Init /\ [][Next]_vars

\* composeStepHandlers over every handler list, beside one idle setup.
InitCompose ==
    /\ InitSetups([i \in {1} |-> [tools |-> OriginalId, onRefresh |-> FALSE,
                                  refreshMessage |-> Undefined]], <<>>)
    /\ \E handlers \in HandlerLists : composed = Compose(handlers)

NextCompose ==
    \/ InvokeComposed
    \/ HandlerSettles

SpecCompose == InitCompose /\ [][NextCompose]_vars

\* The event loop resumes the combined handler once the result it awaits has
\* settled.
SpecComposeFair == SpecCompose /\ WF_vars(HandlerSettles)

\* ---------------------------------------------------- overlapping calls
\* The most onStepFinish calls on one setup suspended at the await together.
MaxInFlight == 2

\* A caller that does not await onStepFinish before calling it again.
OnStepFinishOverlapping ==
    /\ \E i \in Created : awaiting[i] < MaxInFlight /\ OnStepFinishCall(i)
    /\ UNCHANGED composed

\* One pending refreshTools promise settles and its call runs to the end.
RefreshSettles ==
    \/ RefreshToolsResolves
    \/ OnRefreshThrows
    \/ RefreshMessageThrows
    \/ RefreshToolsRejects

OverlapConfigs ==
    [tools : {OriginalId}, onRefresh : BOOLEAN,
     refreshMessage : {Undefined, Fn("join")}]

InitOverlap ==
    /\ \E cfg \in OverlapConfigs, init \in InitialToolSets :
          InitSetups([i \in {1} |-> cfg], init)
    /\ composed = NotComposed

NextOverlap ==
    \/ OnStepFinishOverlapping
    \/ RefreshSettles
    \/ PrepareStep

SpecOverlap == InitOverlap /\ [][NextOverlap]_vars

\* A pending refreshTools promise eventually settles and the event loop
\* resumes the call that awaits it.
SpecOverlapFair == SpecOverlap /\ WF_vars(RefreshSettles)

\* Overlapping calls of a setup with a function template, in runs where
\* neither onRefresh nor the template function throws.
FunctionConfigs ==
    [tools : {OriginalId}, onRefresh : BOOLEAN,
     refreshMessage : {Fn(f) : f \in TemplateFns}]

InitNoThrow ==
    /\ \E cfg \in FunctionConfigs, init \in InitialToolSets :
          InitSetups([i \in {1} |-> cfg], init)
    /\ composed = NotComposed

NextNoThrow ==
    \/ OnStepFinishOverlapping
    \/ RefreshToolsResolves
    \/ RefreshToolsRejects
    \/ PrepareStep

SpecNoThrow == InitNoThrow /\ [][NextNoThrow]_vars

\* ------------------------------------------------------------ two setups
\* dynamicTools called twice with configurations that name the same initial
\* tools object.
TwoConfigs ==
    [tools : {OriginalId}, onRefresh : {FALSE},
     refreshMessage : {Undefined, Fn("join")}]

\* The mapping both setups start from, and those refreshTools returns.
TwoInitialTools == <<Entry("a", "d1")>>
TwoFreshToolSets ==
    {<<Entry("b", "d2")>>, <<Entry("a", "d2"), Entry("b", "d2")>>}

InitTwo ==
    /\ \E cfgs \in [Instances -> TwoConfigs] : InitSetups(cfgs, TwoInitialTools)
    /\ composed = NotComposed

RefreshToolsResolvesTwo ==
    /\ \E i \in Created, fresh \in TwoFreshToolSets :
          ResumeRefresh(i, fresh, FALSE, FALSE)
    /\ UNCHANGED composed

PrepareStepTwo ==
    /\ \E i \in Created : PrepareStepCall(i, <<>>)
    /\ UNCHANGED composed

NextTwo ==
    \/ OnStepFinish
    \/ RefreshToolsResolvesTwo
    \/ RefreshToolsRejects
    \/ PrepareStepTwo

SpecTwo == InitTwo /\ [][NextTwo]_vars

\* ================================================================ claims
\* The operation that has just run is the continuation of an onStepFinish
\* call whose refreshTools resolved.
Swapped == lastOp.op = "resume" /\ lastOp.refreshTools = "resolved"

\* C1 (total replacement): after an onStepFinish call in which shouldRefresh
\* returned true and refreshTools resolved, the registry's key set is exactly
\* the replacement mapping's key set: no earlier key survives unless the
\* replacement has it, and an empty replacement empties the registry. It
\* holds after every refresh of a sequence.
C1_TotalReplacement ==
    Swapped =>
        /\ KeySet(Registry(lastOp.inst)) = KeySet(lastOp.freshTools)
        /\ (lastOp.freshTools = <<>> => Registry(lastOp.inst) = <<>>)

\* A refresh has run on a registry that started with key a, and left key b
\* alone.
C1_Witness ==
    /\ Swapped
    /\ "a" \in KeySet(Original)
    /\ KeySet(lastOp.freshTools) = {"b"}
    /\ KeySet(Registry(1)) = {"b"}

\* C2 (identity stability): the object dynamicTools returned as `tools` is
\* the object its closure mutates, in every state and after any mix of
\* skipping, refreshing and failing onStepFinish calls and of prepareStep
\* calls; neither the returned reference nor the closure's is ever rebound.
C2_IdentityStability ==
    /\ [](\A i \in Created : tools[i] = result[i].tools)
    /\ [][\A i \in Created : /\ result'[i].tools = result[i].tools
                              /\ tools'[i] = tools[i]]_vars

\* A refresh has changed the registry's contents, seen through the returned
\* reference.
C2_Witness ==
    /\ Swapped
    /\ lastOp.status = "resolved"
    /\ tools[1] = result[1].tools
    /\ Registry(1) # Original
    /\ Registry(1) = lastOp.freshTools

\* C3 (skip purity): an onStepFinish call whose shouldRefresh returned false
\* calls neither refreshTools nor onRefresh, leaves the pending notification
\* as it was (armed with the same text, or not armed) and leaves the
\* registry's keys unchanged.
C3_SkipPurity ==
    [][(lastOp'.op = "onStepFinish" /\ lastOp'.shouldRefresh = "false") =>
          /\ lastOp'.refreshToolsCalls = 0
          /\ lastOp'.onRefreshArgs = <<>>
          /\ lastOp'.status = "resolved"
          /\ awaiting' = awaiting
          /\ pendingRefreshMessage' = pendingRefreshMessage
          /\ ObjectKeys(heap'[result'[lastOp'.inst].tools])
                = ObjectKeys(heap[result[lastOp'.inst].tools])
       ]_vars

\* A call was skipped while a notification was armed and not yet consumed.
C3_Witness ==
    /\ lastOp.op = "onStepFinish"
    /\ lastOp.shouldRefresh = "false"
    /\ Truthy(pendingRefreshMessage[1])
    /\ Registry(1) # Original

\* The operation that has just run is a prepareStep call on setup i.
Prepared(i) == lastOp.op = "prepareStep" /\ lastOp.inst = i

\* prepareStep's return value appends exactly one message to its input.
AppendsOne(op) ==
    /\ op.returned.type = "object"
    /\ Len(op.returned.messages) = Len(op.messages) + 1
    /\ SubSeq(op.returned.messages, 1, Len(op.messages)) = op.messages

\* C4 (one-shot notification), as claimed: for every configured
\* refreshMessage (fixed string or function), the first prepareStep call
\* after an onStepFinish call that performed a refresh returns an override
\* appending exactly one message, every later prepareStep call before
\* another refresh returns undefined, and so does every prepareStep call
\* made before any refresh.
C4_OneShot ==
    \A i \in Created :
        Prepared(i) =>
            /\ latestRefresh[i].prepareSteps = 1 => AppendsOne(lastOp)
            /\ latestRefresh[i].prepareSteps = 2 => lastOp.returned = NoOverride
            /\ latestRefresh[i].prepareSteps = -1 => lastOp.returned = NoOverride

\* What does hold: the same, for refreshes whose notification text is not
\* the empty string.
C4_OneShotNonEmpty ==
    \A i \in Created :
        Prepared(i) =>
            /\ (/\ latestRefresh[i].prepareSteps = 1
                /\ NotificationFor(config[i], latestRefresh[i].toolNames).text
                      # EmptyString)
                  => AppendsOne(lastOp)
            /\ latestRefresh[i].prepareSteps = 2 => lastOp.returned = NoOverride
            /\ latestRefresh[i].prepareSteps = -1 => lastOp.returned = NoOverride

\* C5 (hook presence), as claimed: the result holds a prepareStep hook
\* exactly when a refreshMessage was supplied, whatever string or function
\* it is.
C5_HookPresence ==
    \A i \in Created :
        result[i].prepareStep <=> config[i].refreshMessage.type # "undefined"

\* What does hold: the hook is there exactly when refreshMessage is a
\* function or a string other than the empty one.
C5_HookIffTruthy ==
    \A i \in Created :
        result[i].prepareStep <=>
            \/ config[i].refreshMessage.type = "function"
            \/ /\ config[i].refreshMessage.type = "string"
               /\ config[i].refreshMessage.text # EmptyString

\* C6 (observer correctness): in every onStepFinish call that swaps, with
\* onRefresh configured, onRefresh is called exactly once, with the
\* registry's key sequence as it is after the swap, which is the replacement
\* mapping's key sequence in its own order.
C6_ObserverCorrectness ==
    (Swapped /\ config[lastOp.inst].onRefresh) =>
        /\ lastOp.onRefreshArgs = <<ObjectKeys(Registry(lastOp.inst))>>
        /\ ObjectKeys(Registry(lastOp.inst)) = ObjectKeys(lastOp.freshTools)

\* onRefresh was called with <<b, a>> on a registry that started as <<a, b>>.
C6_Witness ==
    /\ Swapped
    /\ config[1].onRefresh
    /\ ObjectKeys(Original) = <<"a", "b">>
    /\ lastOp.onRefreshArgs = << <<"b", "a">> >>

\* C7 (copy isolation): the registry is another object than the caller's
\* initial mapping, starts with the same keys, and no operation ever changes
\* the keys of the caller's mapping.
C7_CopyIsolation ==
    /\ [](\A i \in Created :
            /\ result[i].tools # config[i].tools
            /\ lastOp.op = "dynamicTools" =>
                  ObjectKeys(Registry(i)) = ObjectKeys(heap[config[i].tools]))
    /\ [][ObjectKeys(heap'[OriginalId]) = ObjectKeys(heap[OriginalId])]_vars

\* A refresh has emptied the registry and the caller's mapping still has both
\* its keys.
C7_Witness ==
    /\ Swapped
    /\ Registry(1) = <<>>
    /\ ObjectKeys(Original) = <<"a", "b">>

\* C8 (override content): when prepareStep delivers a notification, it
\* returns the input messages followed by one user message `[system: <n>]`,
\* n being the fixed refreshMessage, or the refreshMessage function applied
\* to the tool names of the refresh that armed it; the caller's message list
\* is as it was.
C8_OverrideContent ==
    \A i \in Created :
        (Prepared(i) /\ lastOp.returned.type = "object") =>
            LET n == IF config[i].refreshMessage.type = "function"
                     THEN ApplyTemplate(config[i].refreshMessage.fn,
                                        latestRefresh[i].toolNames)
                     ELSE config[i].refreshMessage.text
            IN  /\ lastOp.returned.messages =
                      lastOp.messages
                        \o <<[role |-> "user",
                              content |-> <<"[system: ">> \o n \o <<"]">>]>>
                /\ lastOp.messagesAfter = lastOp.messages

\* A function refreshMessage was delivered after a refresh to <<b, a>>, on top
\* of two earlier messages.
C8_Witness ==
    /\ Prepared(1)
    /\ Len(lastOp.messages) = 2
    /\ config[1].refreshMessage = Fn("announce")
    /\ lastOp.returned.type = "object"
    /\ lastOp.returned.messages[3].content =
          <<"[system: ", "Tools refreshed. Now available: ", "b", ", ", "a", "]">>

\* What a run over the first n handlers leaves in the trace when none of
\* them fails: each called with the step and completed, one after the other.
SequentialTrace(n, step) ==
    [j \in 1..(2 * n) |->
        Event(IF j % 2 = 1 THEN "call" ELSE "done", (j + 1) \div 2, step)]

IsPrefix(s, t) == Len(s) <= Len(t) /\ s = SubSeq(t, 1, Len(s))

\* No handler has failed in the current run of the combined handler.
NoneFailed == \A j \in 1..Len(composed.trace) : composed.trace[j].ev # "fail"

\* C9 (composer ordering): while no handler fails, the combined handler
\* calls the handlers in the order given, each once and with the step it was
\* called with, and calls a handler only after the one before it has
\* completed, so that at most one handler is in progress; it resolves after
\* exactly all of them have run, and with no handlers it resolves without
\* calling anything. A run that awaits a handler comes to an end.
C9_Sequential ==
    LET all == SequentialTrace(Len(composed.handlers), composed.step)
    IN  /\ Cardinality(composed.running) <= 1
        /\ NoneFailed =>
              /\ composed.phase # "rejected"
              /\ IsPrefix(composed.trace, all)
              /\ composed.phase = "resolved" => composed.trace = all
              /\ composed.running = {} \/ composed.running = {composed.at}

C9_ComposerOrdering ==
    /\ []C9_Sequential
    /\ [](composed.phase = "awaiting" =>
            <>(composed.phase \in {"resolved", "rejected"}))

\* Three handlers, sync and async, have run in order and the combined
\* handler has resolved.
C9_Witness ==
    /\ composed.handlers = <<"async", "sync", "async">>
    /\ composed.phase = "resolved"
    /\ composed.step = "step2"
    /\ Len(composed.trace) = 6

\* The combined handler of no handlers has resolved, nothing called.
C9_WitnessEmpty ==
    /\ composed.handlers = <<>>
    /\ composed.phase = "resolved"
    /\ composed.trace = <<>>

\* C10 (composer short-circuit): when handler k fails, by throwing or by
\* rejecting, the combined handler rejects with that failure, the handlers
\* before k have each been called once, and no handler after k is called.
C10_ShortCircuit ==
    /\ \A j \in 1..Len(composed.trace) :
          composed.trace[j].ev = "fail" =>
            LET k == composed.trace[j].handler
            IN  /\ j = Len(composed.trace)
                /\ composed.phase = "rejected"
                /\ composed.error = k
                /\ composed.trace =
                      SequentialTrace(k - 1, composed.step)
                        \o <<Event("call", k, composed.step),
                              Event("fail", k, composed.step)>>
    /\ composed.phase = "rejected" =>
          /\ composed.error \in 1..Len(composed.handlers)
          /\ composed.trace # <<>>
          /\ composed.trace[Len(composed.trace)] =
                Event("fail", composed.error, composed.step)

\* The second of three handlers, an async one, has rejected: the third was
\* never called.
C10_Witness ==
    /\ composed.handlers = <<"sync", "async", "sync">>
    /\ composed.phase = "rejected"
    /\ composed.error = 2
    /\ Len(composed.trace) = 4

\* The first handler threw inside the call.
C10_WitnessThrow ==
    /\ composed.handlers = <<"sync", "async">>
    /\ composed.phase = "rejected"
    /\ composed.error = 1

\* The step is an onStepFinish call on which shouldRefresh threw, or the
\* continuation of one whose refreshTools rejected.
FailedBeforeSwap(op) ==
    \/ op.op = "onStepFinish" /\ op.shouldRefresh = "throw"
    \/ op.op = "resume" /\ op.refreshTools = "rejected"

\* C11 (failure before the swap): when shouldRefresh throws, or returns true
\* and refreshTools then fails, the onStepFinish call rejects with that
\* failure, onRefresh is not called, and the call changes neither the
\* registry (its keys and tools are those from before the call) nor the
\* pending notification; the call up to the await changes nothing either.
C11_FailureBeforeSwap ==
    [][/\ FailedBeforeSwap(lastOp') =>
            /\ lastOp'.status = "rejected"
            /\ lastOp'.error = (IF lastOp'.op = "onStepFinish"
                                 THEN "shouldRefresh" ELSE "refreshTools")
            /\ lastOp'.onRefreshArgs = <<>>
            /\ lastOp'.refreshToolsCalls =
                  (IF lastOp'.op = "onStepFinish" THEN 0 ELSE 1)
            /\ heap'[result'[lastOp'.inst].tools] = heap[result[lastOp'.inst].tools]
            /\ pendingRefreshMessage' = pendingRefreshMessage
       /\ (lastOp'.op = "onStepFinish" /\ lastOp'.shouldRefresh = "true") =>
            /\ heap' = heap
            /\ pendingRefreshMessage' = pendingRefreshMessage
      ]_vars

\* refreshTools has rejected on a registry refreshed earlier, with a
\* notification armed: both are still there.
C11_Witness ==
    /\ lastOp.op = "resume"
    /\ lastOp.refreshTools = "rejected"
    /\ lastOp.error = "refreshTools"
    /\ Truthy(pendingRefreshMessage[1])
    /\ ObjectKeys(Registry(1)) = <<"b", "a">>
    /\ Registry(1) # Original

\* shouldRefresh has thrown with a notification armed.
C11_WitnessThrow ==
    /\ lastOp.op = "onStepFinish"
    /\ lastOp.error = "shouldRefresh"
    /\ Truthy(pendingRefreshMessage[1])

\* The step is the continuation of an onStepFinish call whose onRefresh
\* threw.
ObserverFailed(op) == op.op = "resume" /\ op.error = "onRefresh"

C12_WitnessStale ==
    /\ ObserverFailed(lastOp)
    /\ config[1].refreshMessage = Fn("join")
    /\ Truthy(pendingRefreshMessage[1])
    /\ latestRefresh[1].toolNames # ObjectKeys(Registry(1))

\* The notification the latest completed refresh of setup i computed.
LatestNotification(i) ==
    NotificationFor(config[i], latestRefresh[i].toolNames)

\* prepareStep's return value when it delivers the notification text.
Delivers(op, text) == op.returned = Override(op.messages \o <<Notice(text)>>)

\* What C13 says of a step on setup i, for refreshes whose notification
\* satisfies Covered: the slot holds one value; arming overwrites it with
\* the new refresh's notification; the first prepareStep after two or more
\* refreshes delivers the latest refresh's notification and empties the
\* slot; a further prepareStep returns no override.
LastRefreshWinsStep(i, Covered(_)) ==
    /\ pendingRefreshMessage'[i].type \in {"null", "string"}
    /\ (lastOp'.op = "resume" /\ Arms(lastOp'.events)) =>
          pendingRefreshMessage'[i] =
              NotificationFor(config[i], latestRefresh'[i].toolNames)
    /\ (/\ lastOp'.op = "prepareStep"
        /\ latestRefresh[i].refreshes >= 2
        /\ Covered(LatestNotification(i))) =>
          /\ Delivers(lastOp', LatestNotification(i).text)
          /\ pendingRefreshMessage'[i] = Null
    /\ (lastOp'.op = "prepareStep" /\ latestRefresh[i].prepareSteps >= 1) =>
          lastOp'.returned = NoOverride

AnyNotification(n) == TRUE

\* C13 (last refresh wins): at most one notification is pending; arming
\* overwrites an unconsumed one; after two or more refreshes with no
\* prepareStep between them the next prepareStep delivers exactly the latest
\* refresh's notification, and the prepareStep after that returns no
\* override.
C13_LastRefreshWins ==
    [][LastRefreshWinsStep(lastOp'.inst, AnyNotification)]_vars

\* C13 holds of the refreshes whose notification text is not empty.
C13_LastRefreshWinsNonEmpty ==
    [][LastRefreshWinsStep(lastOp'.inst, Truthy)]_vars

\* The number of notifications a prepareStep call handed over.
DeliveredCount(op) ==
    IF op.returned = NoOverride THEN 0
    ELSE Len(op.returned.messages) - Len(op.messages)

\* C14 as stated (exactly-once delivery): every refresh that completes has
\* its notification delivered by exactly one prepareStep call, never zero
\* and never two: a prepareStep call hands over one notification for each
\* refresh completed since the previous prepareStep call.
C14_ExactlyOnce ==
    [][lastOp'.op = "prepareStep" =>
          DeliveredCount(lastOp') = latestRefresh[lastOp'.inst].refreshes]_vars

\* C14 amended (at-most-once delivery): a prepareStep call hands over at
\* most one notification; when it hands one over, a refresh has completed
\* since the previous prepareStep call, the notification is that of the
\* latest completed refresh, and the slot is emptied, so no refresh is
\* delivered twice and a refresh overwritten by a later one is not
\* delivered.
C14_AtMostOnce ==
    [][lastOp'.op = "prepareStep" =>
          LET i == lastOp'.inst
          IN  /\ DeliveredCount(lastOp') <= 1
              /\ DeliveredCount(lastOp') = 1 =>
                    /\ latestRefresh[i].refreshes >= 1
                    /\ Delivers(lastOp', LatestNotification(i).text)
                    /\ pendingRefreshMessage'[i] = Null
              /\ latestRefresh[i].refreshes = 0 =>
                    lastOp'.returned = NoOverride]_vars

\* prepareStep has delivered the notification of the latest refresh, which
\* names the refreshed registry's tools.
C14_Witness ==
    /\ lastOp.op = "prepareStep"
    /\ config[1].refreshMessage = Fn("announce")
    /\ ObjectKeys(Registry(1)) = <<"b", "a">>
    /\ Delivers(lastOp, LatestNotification(1).text)
    /\ pendingRefreshMessage[1] = Null

\* Two refreshes with non-empty notifications have completed and no
\* prepareStep has run since the first: the slot holds the second's
\* notification only.
C14_WitnessOverwritten ==
    /\ config[1].refreshMessage = Fn("announce")
    /\ latestRefresh[1].refreshes = 2
    /\ pendingRefreshMessage[1] = LatestNotification(1)

\* The registry of setup i is whole: it is the initial mapping, or the
\* mapping the latest resolved refreshTools returned.
Whole(i) ==
    \/ Registry(i) = Original
    \/ FreshId \in DOMAIN heap /\ Registry(i) = heap[FreshId]

\* C15 (atomic swap): with onStepFinish calls overlapping and prepareStep
\* running while calls are suspended at the await, every state in which
\* another operation can run has the registry whole, never cleared and not
\* yet refilled, and every step either leaves the registry alone or replaces
\* it by one resolved mapping in a single step.
C15_AtomicSwap ==
    /\ [](\A i \in Created : Whole(i))
    /\ [][\A i \in Created :
            \/ heap'[result[i].tools] = heap[result[i].tools]
            \/ /\ lastOp'.op = "resume"
               /\ lastOp'.refreshTools = "resolved"
               /\ heap'[result[i].tools] = lastOp'.freshTools]_vars

\* prepareStep has run while an onStepFinish call is suspended at the await,
\* on a registry that an overlapping call has already replaced.
C15_Witness ==
    /\ lastOp.op = "prepareStep"
    /\ awaiting[1] >= 1
    /\ ObjectKeys(Original) = <<"a">>
    /\ ObjectKeys(Registry(1)) = <<"b">>

\* The registry of setup i holds a partial tool set: its key set is neither
\* the initial one nor that of the mapping the latest resolved refreshTools
\* returned.
Partial(i) ==
    /\ KeySet(Registry(i)) # KeySet(Original)
    /\ FreshId \in DOMAIN heap => KeySet(Registry(i)) # KeySet(heap[FreshId])

\* C16 as stated (overlapping refreshes corrupt the registry): with two
\* onStepFinish calls in flight the clear-then-insert sequences interleave
\* and the registry comes to hold a partial tool set. The claim is that such
\* a state is reachable; the formula asks for it in the runs where two calls
\* are in flight together and both settle, and the invariant in
\* C16_LastResolvedWins shows that no run at all has it.
C16_PartialReached ==
    (<>(\E i \in Created : awaiting[i] >= 2))
        => <>(\E i \in Created : Partial(i))

\* C16 amended: with onStepFinish calls overlapping, each call's
\* clear-then-insert runs in one step when its refreshTools resolves, so the
\* registry is then exactly the mapping that call received, whatever an
\* overlapping call put there and whichever call started first, and no
\* state holds a partial tool set.
C16_LastResolvedWins ==
    /\ [](\A i \in Created : ~Partial(i))
    /\ [][(lastOp'.op = "resume" /\ lastOp'.refreshTools = "resolved") =>
            heap'[result[lastOp'.inst].tools] = lastOp'.freshTools]_vars

\* Of two overlapping onStepFinish calls one has resumed and replaced the
\* registry while the other is still suspended at the await.
C16_Witness ==
    /\ Swapped
    /\ awaiting[1] = 1
    /\ ObjectKeys(Original) = <<"a", "b">>
    /\ ObjectKeys(Registry(1)) = <<"b">>
    /\ Registry(1) = lastOp.freshTools

\* How often the call did a.
Count(events, a) == Cardinality({k \in DOMAIN events : events[k] = a})

\* Whatever the call did of a, it did before anything of b.
Precedes(events, a, b) ==
    \A j, k \in DOMAIN events :
        (events[j] = a /\ events[k] = b) => j < k

\* C17 (event order inside one onStepFinish call): shouldRefresh is
\* evaluated exactly once and first; refreshTools is called at most once,
\* never again, and only when shouldRefresh returned true; the registry is
\* not mutated before refreshTools has resolved; onRefresh runs after the
\* swap, seeing the swapped registry's names; the notification is armed only
\* after onRefresh has returned, from the name sequence onRefresh received.
C17_EventOrder ==
    [][LET i == lastOp'.inst
           ev == lastOp'.events
       IN  /\ lastOp'.op = "onStepFinish" =>
                /\ ev[1] = "shouldRefresh"
                /\ Count(ev, "shouldRefresh") = 1
                /\ Count(ev, "refreshTools") = lastOp'.refreshToolsCalls
                /\ Count(ev, "refreshTools") =
                      (IF lastOp'.shouldRefresh = "true" THEN 1 ELSE 0)
                /\ Precedes(ev, "shouldRefresh", "refreshTools")
                /\ Count(ev, "swap") = 0 /\ ~Arms(ev)
                /\ heap' = heap
                /\ pendingRefreshMessage' = pendingRefreshMessage
           /\ lastOp'.op = "resume" =>
                /\ Count(ev, "shouldRefresh") = 0
                /\ Count(ev, "refreshTools") = 0
                /\ lastOp'.refreshToolsCalls = 1
                /\ Count(ev, "swap") =
                      (IF lastOp'.refreshTools = "resolved" THEN 1 ELSE 0)
                /\ lastOp'.refreshTools # "resolved" =>
                      ev = <<>> /\ heap' = heap
                /\ Precedes(ev, "swap", "onRefresh")
                /\ Precedes(ev, "onRefresh", "refreshMessage")
                /\ Precedes(ev, "onRefresh", "arm")
                /\ Precedes(ev, "refreshMessage", "arm")
                /\ Count(ev, "onRefresh") = Len(lastOp'.onRefreshArgs)
                /\ Count(ev, "onRefresh") <= 1
                /\ \A k \in DOMAIN lastOp'.onRefreshArgs :
                      lastOp'.onRefreshArgs[k] = ObjectKeys(heap'[result[i].tools])
                /\ Arms(ev) =>
                      /\ lastOp'.error # "onRefresh"
                      /\ \A k \in DOMAIN lastOp'.onRefreshArgs :
                            pendingRefreshMessage'[i] =
                               NotificationFor(config[i], lastOp'.onRefreshArgs[k])
                /\ ~Arms(ev) =>
                      pendingRefreshMessage' = pendingRefreshMessage
      ]_vars

\* A call has gone through every stage: it swapped a different registry in,
\* called onRefresh, applied the template function and armed its result.
C17_Witness ==
    /\ lastOp.op = "resume"
    /\ lastOp.events = <<"swap", "onRefresh", "refreshMessage", "arm">>
    /\ ObjectKeys(Original) = <<"a">>
    /\ lastOp.onRefreshArgs = <<(<<"b", "a">>)>>
    /\ pendingRefreshMessage[1] = Str(ApplyTemplate("join", <<"b", "a">>))

\* The text the function template gives for the registry's current keys.
TemplateOfRegistry(i) ==
    Str(ApplyTemplate(config[i].refreshMessage.fn, ObjectKeys(Registry(i))))

\* C18 (notification matches registry): with a function template, while
\* neither onRefresh nor the template function throws, in every state
\* between operations, overlapping calls included, an armed notification is
\* the template applied to the registry's current key sequence; and the
\* swap, the onRefresh call and the arming of one call happen in one step,
\* with no step of another call between them.
C18_NotificationMatchesRegistry ==
    /\ [](\A i \in Created :
            pendingRefreshMessage[i] # Null =>
                pendingRefreshMessage[i] = TemplateOfRegistry(i))
    /\ [][Swapped' =>
            LET i == lastOp'.inst
                ev == lastOp'.events
            IN  /\ Count(ev, "swap") = 1
                /\ Count(ev, "onRefresh") = (IF config[i].onRefresh THEN 1 ELSE 0)
                /\ Count(ev, "arm") = 1
                /\ heap'[result[i].tools] = lastOp'.freshTools
                /\ pendingRefreshMessage'[i] =
                      Str(ApplyTemplate(config[i].refreshMessage.fn,
                                        ObjectKeys(lastOp'.freshTools)))]_vars

\* A call has resumed and replaced the registry and the undelivered
\* notification of an earlier refresh while an overlapping call is still
\* suspended at the await; the pending text names the registry's keys.
C18_Witness ==
    /\ Swapped
    /\ awaiting[1] = 1
    /\ latestRefresh[1].refreshes = 2
    /\ config[1].refreshMessage = Fn("announce")
    /\ ObjectKeys(Registry(1)) = <<"b", "a">>
    /\ pendingRefreshMessage[1] = TemplateOfRegistry(1)

\* C19 (instance independence): two setups, also when created from the same
\* initial mapping object, have registries that are different objects, and
\* different from the caller's, and an onStepFinish or prepareStep call on
\* one setup leaves the other's registry and pending notification, and the
\* caller's object, as they were.
C19_InstanceIndependence ==
    /\ [](\A i, j \in Created :
            /\ result[i].tools # config[i].tools
            /\ i # j => result[i].tools # result[j].tools)
    /\ [][\A j \in Created :
            j # lastOp'.inst =>
                /\ heap'[result[j].tools] = heap[result[j].tools]
                /\ pendingRefreshMessage'[j] = pendingRefreshMessage[j]
                /\ awaiting'[j] = awaiting[j]]_vars

\* Two setups made from one initial mapping {a} have been refreshed
\* differently: the first holds {b} and has delivered its notification, the
\* second holds {a, b} with its notification pending.
C19_Witness ==
    /\ Created = Instances
    /\ config[1].tools = config[2].tools
    /\ ObjectKeys(Original) = <<"a">>
    /\ ObjectKeys(Registry(1)) = <<"b">>
    /\ ObjectKeys(Registry(2)) = <<"a", "b">>
    /\ pendingRefreshMessage[1] = Null
    /\ latestRefresh[1].prepareSteps = 1
    /\ pendingRefreshMessage[2] = Str(ApplyTemplate("join", <<"a", "b">>))
====
